---- MODULE Spec2Model ----
(***************************************************************************)
(* clif: the UF2 block generator (generate) and the chunk combiner         *)
(* (combine) of src/src/main.rs.                                           *)
(*                                                                         *)
(* A u32 is kept as a pair <<hi, lo>> of 16-bit limbs, value hi*2^16+lo,   *)
(* so that the whole u32 range (u32::MAX, family ids above 2^31) and the   *)
(* wrap-around of its arithmetic are represented exactly.  A u64 file      *)
(* length uses the same pair with hi allowed to reach 2^16 and above.      *)
(***************************************************************************)
EXTENDS Integers, Sequences, FiniteSets, TLC

\* ------------------------------------------------------------------ bounds
\* source lengths are k*stride + d for k in 0..MaxFull, d in 0..MaxRem
MaxFull == 4
MaxRem == 3
\* combine is given at most MaxInputs input files
MaxInputs == 3
\* the loop of generate is followed for at most MaxFrames frames
MaxFrames == MaxFull + 2

\* --------------------------------------------------------- program constants
CHUNK_SIZE == 512
MAX_PAYLOAD_SIZE == 476

\* ------------------------------------------------------------ u32 arithmetic
W == 65536

U32(n) == <<n \div W, n % W>>

U32_MAX == <<W - 1, W - 1>>

\* u64 -> u32 conversion of line 97 succeeds iff the value is below 2^32
TryIntoOk(x) == x[1] < W

Lt(x, y) == x[1] < y[1] \/ (x[1] = y[1] /\ x[2] < y[2])

AddOverflows(x, y) == x[1] + y[1] + ((x[2] + y[2]) \div W) >= W

AddWrap(x, y) == <<(x[1] + y[1] + ((x[2] + y[2]) \div W)) % W, (x[2] + y[2]) % W>>

SubWrap(x, y) ==
    LET lo == x[2] - y[2]
        borrow == IF lo < 0 THEN 1 ELSE 0
    IN  <<(x[1] - y[1] - borrow) % W, lo % W>>

\* x % d and x / d for a divisor 0 < d < 2^16 (every divisor of the program
\* is at most MAX_PAYLOAD_SIZE once line 98 has clamped page_size)
RemU32(x, d) == (((x[1] % d) * (W % d)) + x[2]) % d

DivU32(x, d) == <<x[1] \div d, (((x[1] % d) * W) + x[2]) \div d>>

RECURSIVE BitOr16(_, _)
BitOr16(a, b) ==
    IF a = 0 THEN b
    ELSE IF b = 0 THEN a
    ELSE (IF a % 2 = 1 \/ b % 2 = 1 THEN 1 ELSE 0) + 2 * BitOr16(a \div 2, b \div 2)

BitOr(x, y) == <<BitOr16(x[1], y[1]), BitOr16(x[2], y[2])>>

to_le_bytes(x) == <<x[2] % 256, x[2] \div 256, x[1] % 256, x[1] \div 256>>

\* Option<u32>
None == <<>>
Some(x) == <<x>>

\* ----------------------------------------------------------------- UF2Block
FAMILY_FLAG == U32(8192)
MAGIC_START_0 == <<2610, 18005>>
MAGIC_START_1 == <<40541, 20823>>
MAGIC_END == <<2737, 28464>>

ZeroData == [i \in 1..MAX_PAYLOAD_SIZE |-> 0]

\* num_blocks of line 53, with len + 1 taken modulo 2^32
NumBlocks(payload_size, len) == DivU32(AddWrap(len, U32(1)), payload_size[2])

UF2Block_new(payload_size, len) ==
    [flags |-> U32(0),
     target_addr |-> U32(0),
     payload_size |-> payload_size,
     block_no |-> U32(0),
     num_blocks |-> NumBlocks(payload_size, len),
     file_size |-> len,
     data |-> ZeroData]

set_family_keeps_size(b, f) == [b EXCEPT !.flags = BitOr(b.flags, FAMILY_FLAG)]
set_family(b, f) ==
    [b EXCEPT !.flags = BitOr(b.flags, FAMILY_FLAG), !.file_size = f]

as_chunk(b) ==
    to_le_bytes(MAGIC_START_0) \o to_le_bytes(MAGIC_START_1)
    \o to_le_bytes(b.flags) \o to_le_bytes(b.target_addr)
    \o to_le_bytes(b.payload_size) \o to_le_bytes(b.block_no)
    \o to_le_bytes(b.num_blocks) \o to_le_bytes(b.file_size)
    \o b.data \o to_le_bytes(MAGIC_END)

\* -------------------------------------------------------------------- files
\* byte at offset i (from 0) of a file written with the given fill pattern:
\* fill 0 is an all-zero file, any other fill has no zero byte
FileByte(fill, i) == IF fill = 0 THEN 0 ELSE ((i * fill) % 255) + 1

\* ----------------------------------------------------------------- generate
\* lines 98-100
ClampOffByOne(page_size) ==
    IF ~Lt(page_size, U32(MAX_PAYLOAD_SIZE)) THEN U32(1) ELSE page_size
ClampPageSize(page_size) ==
    IF Lt(U32(MAX_PAYLOAD_SIZE), page_size) THEN U32(1) ELSE page_size

\* line 107, for 0 < page_size <= MAX_PAYLOAD_SIZE
PayloadIgnoresPage(page_size) == U32(MAX_PAYLOAD_SIZE)
NominalPayloadSize(page_size) ==
    U32(page_size[2] * (MAX_PAYLOAD_SIZE \div page_size[2]))

\* line 118: read_exact into data[..n] from reader position pos
ReadInto(data, n, fill, pos) ==
    [i \in 1..MAX_PAYLOAD_SIZE |->
        IF i <= n THEN FileByte(fill, pos + i - 1) ELSE data[i]]

\* line 121
AdvanceByOne(addr, n) == AddWrap(addr, U32(1))
AdvanceTargetAddr(addr, n) == AddWrap(addr, n)

\* ------------------------------------------------------------------ combine
ZeroBuf == [i \in 1..CHUNK_SIZE |-> 0]

\* line 89: read_exact of CHUNK_SIZE bytes from the start of a file
ReadPadded(file, old) ==
    [ok |-> TRUE,
     buf |-> [i \in 1..CHUNK_SIZE |->
                 IF i <= file.size THEN FileByte(file.fill, i - 1) ELSE 0]]
ReadExact(file, old) ==
    IF file.size < CHUNK_SIZE
    THEN [ok |-> FALSE, buf |-> old]
    ELSE [ok |-> TRUE, buf |-> [i \in 1..CHUNK_SIZE |-> FileByte(file.fill, i - 1)]]

\* -------------------------------------------------------------------- state
VARIABLES
    cmd,             \* ClifArgs variant: "generate" or "combine"
    pc,              \* position in generate / combine
    result,          \* "none", "ok", "err" (returned Err) or "panic"
    overflow_checks, \* build profile: TRUE = arithmetic overflow panics
    argv,            \* GenerateArgs as parsed: [page_size, family]
    src,             \* the input file of generate: [size, fill]
    out_existed,     \* whether the output path existed before the run
    out_file,        \* the output path: [exists, bytes]
    page_size,       \* args.page_size (mutated at line 99)
    len,             \* generate: len
    payload_size,    \* generate: payload_size
    block,           \* generate: block
    input_pos,       \* generate: bytes consumed from input
    inputs,          \* CombineArgs.inputs: sequence of [exists, size, fill]
    idx,             \* combine: index of the next input
    buf,             \* combine: buf
    opened           \* combine: indices of the inputs opened, in order

vars == <<cmd, pc, result, overflow_checks, argv, src, out_existed, out_file,
          page_size, len, payload_size, block, input_pos, inputs, idx, buf,
          opened>>

genVars == <<page_size, len, payload_size, block, input_pos>>
combVars == <<idx, buf, opened>>
envVars == <<cmd, overflow_checks, argv, src, out_existed, inputs>>

OldBytes == <<170, 187>>

InitialOutFile(existed) ==
    [exists |-> existed, bytes |-> IF existed THEN OldBytes ELSE <<>>]

\* File::create: creates or truncates
Created == [exists |-> TRUE, bytes |-> <<>>]

PageSizes == {U32(0), U32(1), U32(3), U32(7), U32(256), U32(MAX_PAYLOAD_SIZE),
              U32(MAX_PAYLOAD_SIZE + 1), U32(1000), U32_MAX}

Families == {None, Some(U32(7)), Some(<<58507, 65366>>)}

Strides == {256, MAX_PAYLOAD_SIZE}

SourceSizes ==
    {U32(k * s + d) : k \in 0..MaxFull, s \in Strides, d \in 0..MaxRem}
    \cup {U32_MAX, <<W, 0>>}

Fills == {0, 1}

InputFiles ==
    {[exists |-> FALSE, size |-> 0, fill |-> 0],
     [exists |-> TRUE, size |-> 0, fill |-> 0],
     [exists |-> TRUE, size |-> CHUNK_SIZE - 1, fill |-> 1],
     [exists |-> TRUE, size |-> CHUNK_SIZE, fill |-> 1],
     [exists |-> TRUE, size |-> CHUNK_SIZE, fill |-> 2],
     [exists |-> TRUE, size |-> CHUNK_SIZE + 1, fill |-> 3]}

InputLists == UNION {[1..n -> InputFiles] : n \in 0..MaxInputs}

NoBlock == UF2Block_new(U32(1), U32(0))

InitCommon ==
    /\ result = "none"
    /\ overflow_checks \in BOOLEAN
    /\ out_existed \in BOOLEAN
    /\ out_file = InitialOutFile(out_existed)
    /\ len = U32(0)
    /\ payload_size = U32(0)
    /\ block = NoBlock
    /\ input_pos = 0
    /\ idx = 1
    /\ buf = ZeroBuf
    /\ opened = <<>>

InitGenerate ==
    /\ cmd = "generate"
    /\ pc = "g_open"
    /\ argv \in [page_size : PageSizes, family : Families]
    /\ page_size = argv.page_size
    /\ src \in [size : SourceSizes, fill : Fills]
    /\ inputs = <<>>

InitCombine ==
    /\ cmd = "combine"
    /\ pc = "c_create"
    /\ argv = [page_size |-> U32(1), family |-> None]
    /\ page_size = argv.page_size
    /\ src = [size |-> U32(0), fill |-> 0]
    /\ inputs \in InputLists

Init == InitCommon /\ (InitGenerate \/ InitCombine)

Finish(r) ==
    /\ result' = r
    /\ pc' = IF r = "panic" THEN "panic" ELSE "done"

\* ------------------------------------------------------- generate, line 96-97
GenerateOpenInput ==
    /\ pc = "g_open"
    /\ \/ /\ Finish("err")                      \* File::open or metadata fails
          /\ UNCHANGED len
       \/ /\ ~TryIntoOk(src.size)               \* try_into fails
          /\ Finish("err")
          /\ UNCHANGED len
       \/ /\ TryIntoOk(src.size)
          /\ len' = src.size
          /\ pc' = "g_validate"
          /\ UNCHANGED result
    /\ UNCHANGED <<envVars, combVars, out_file, page_size, payload_size, block,
                   input_pos>>

\* ----------------------------------------------------- generate, line 98-106
GenerateValidate ==
    /\ pc = "g_validate"
    /\ page_size' = ClampPageSize(page_size)
    /\ IF page_size' = U32(0)
       THEN Finish("panic")                     \* len % 0
       ELSE IF RemU32(len, page_size'[2]) # 0
            THEN Finish("err")
            ELSE pc' = "g_new" /\ UNCHANGED result
    /\ UNCHANGED <<envVars, combVars, out_file, len, payload_size, block,
                   input_pos>>

\* ---------------------------------------------------- generate, line 107-111
GenerateNewBlock ==
    /\ pc = "g_new"
    /\ payload_size' = NominalPayloadSize(page_size)
    /\ IF AddOverflows(len, U32(1)) /\ overflow_checks
       THEN /\ Finish("panic")                  \* len + 1 overflows
            /\ UNCHANGED block
       ELSE IF payload_size' = U32(0)
       THEN /\ Finish("panic")                  \* (len + 1) / 0
            /\ UNCHANGED block
       ELSE /\ block' = IF argv.family = None
                        THEN UF2Block_new(payload_size', len)
                        ELSE set_family(UF2Block_new(payload_size', len),
                                        argv.family[1])
            /\ pc' = "g_create"
            /\ UNCHANGED result
    /\ UNCHANGED <<envVars, combVars, out_file, page_size, len, input_pos>>

\* --------------------------------------------------------- generate, line 112
GenerateCreate ==
    /\ pc = "g_create"
    /\ \/ /\ Finish("err")                      \* File::create fails
          /\ UNCHANGED out_file
       \/ /\ out_file' = Created
          /\ pc' = "g_loop"
          /\ UNCHANGED result
    /\ UNCHANGED <<envVars, combVars, genVars>>

\* ----------------------------------------------------- generate, line 113-122
\* one iteration of the while loop
GenerateLoop ==
    /\ pc = "g_loop"
    /\ len # U32(0)
    /\ Len(out_file.bytes) < MaxFrames * CHUNK_SIZE
    /\ LET ps == IF Lt(len, payload_size) THEN len ELSE block.payload_size
           b1 == [block EXCEPT !.payload_size = ps]
           b2 == [b1 EXCEPT !.data = ReadInto(block.data, ps[2], src.fill, input_pos)]
           b3 == [b2 EXCEPT !.block_no = AddWrap(b2.block_no, U32(1)),
                            !.target_addr = AdvanceTargetAddr(b2.target_addr, ps)]
       IN  IF Lt(len, ps) /\ overflow_checks
           THEN /\ Finish("panic")              \* len -= underflows
                /\ block' = b1
                /\ UNCHANGED <<len, input_pos, out_file>>
           ELSE /\ len' = SubWrap(len, ps)
                /\ \/ /\ Finish("err")          \* read_exact fails
                      /\ block' = b1
                      /\ UNCHANGED <<input_pos, out_file>>
                   \/ /\ Finish("err")          \* write_all fails
                      /\ block' = b2
                      /\ input_pos' = input_pos + ps[2]
                      /\ UNCHANGED out_file
                   \/ /\ IF (AddOverflows(b2.block_no, U32(1))
                             \/ AddOverflows(b2.target_addr, ps)) /\ overflow_checks
                         THEN Finish("panic") /\ block' = b2
                         ELSE block' = b3 /\ UNCHANGED <<pc, result>>
                      /\ input_pos' = input_pos + ps[2]
                      /\ out_file' = [out_file EXCEPT !.bytes = @ \o as_chunk(b2)]
    /\ UNCHANGED <<envVars, combVars, page_size, payload_size>>

\* --------------------------------------------------------- generate, line 123
GenerateReturn ==
    /\ pc = "g_loop"
    /\ len = U32(0)
    /\ Finish("ok")
    /\ UNCHANGED <<envVars, combVars, genVars, out_file>>

\* ------------------------------------------------------ combine, line 85-86
CombineCreate ==
    /\ pc = "c_create"
    /\ \/ /\ Finish("err")                      \* File::create fails
          /\ UNCHANGED out_file
       \/ /\ out_file' = Created
          /\ pc' = "c_loop"
          /\ UNCHANGED result
    /\ buf' = ZeroBuf
    /\ UNCHANGED <<envVars, genVars, idx, opened>>

\* ------------------------------------------------------ combine, line 87-91
\* one iteration of the for loop
CombineStep ==
    /\ pc = "c_loop"
    /\ idx <= Len(inputs)
    /\ LET file == inputs[idx]
           r == ReadExact(file, buf)
       IN  IF ~file.exists
           THEN /\ Finish("err")                \* File::open fails
                /\ UNCHANGED <<out_file, idx, buf, opened>>
           ELSE /\ opened' = Append(opened, idx)
                /\ IF ~r.ok
                   THEN /\ Finish("err")        \* read_exact: UnexpectedEof
                        /\ UNCHANGED <<out_file, idx, buf>>
                   ELSE /\ buf' = r.buf
                        /\ \/ /\ Finish("err")  \* write_all fails
                              /\ UNCHANGED <<out_file, idx>>
                           \/ /\ out_file' = [out_file EXCEPT !.bytes = @ \o r.buf]
                              /\ idx' = idx + 1
                              /\ UNCHANGED <<pc, result>>
    /\ UNCHANGED <<envVars, genVars>>

\* ---------------------------------------------------------- combine, line 92
CombineReturn ==
    /\ pc = "c_loop"
    /\ idx > Len(inputs)
    /\ Finish("ok")
    /\ UNCHANGED <<envVars, genVars, combVars, out_file>>

Next ==
    \/ GenerateOpenInput
    \/ GenerateValidate
    \/ GenerateNewBlock
    \/ GenerateCreate
    \/ GenerateLoop
    \/ GenerateReturn
    \/ CombineCreate
    \/ CombineStep
    \/ CombineReturn

Spec == Init /\ [][Next]_vars

TypeOK ==
    /\ pc \in {"g_open", "g_validate", "g_new", "g_create", "g_loop",
               "c_create", "c_loop", "done", "panic"}
    /\ result \in {"none", "ok", "err", "panic"}
    /\ Len(block.data) = MAX_PAYLOAD_SIZE
    /\ Len(buf) = CHUNK_SIZE
\* ------------------------------------------------- reading the output back
from_le_bytes(s) == <<s[4] * 256 + s[3], s[2] * 256 + s[1]>>

NumFrames == Len(out_file.bytes) \div CHUNK_SIZE

\* frame i (from 0) of the output, and the u32 field at a byte offset of it
Frame(i) == SubSeq(out_file.bytes, CHUNK_SIZE * i + 1, CHUNK_SIZE * (i + 1))
Field(i, off) == from_le_bytes(SubSeq(out_file.bytes, CHUNK_SIZE * i + off + 1,
                                      CHUNK_SIZE * i + off + 4))
Flags(i) == Field(i, 8)
TargetAddr(i) == Field(i, 12)
PayloadSize(i) == Field(i, 16)
BlockNo(i) == Field(i, 20)
NumBlocksField(i) == Field(i, 24)
FileSizeOrFamily(i) == Field(i, 28)
DataByte(i, j) == out_file.bytes[CHUNK_SIZE * i + 32 + j + 1]

\* frames are what generate has written to the output (a pre-existing output
\* holds OldBytes, less than one frame)
Emitted == IF cmd = "generate" THEN 0..(NumFrames - 1) ELSE {}

GenerateOk == cmd = "generate" /\ pc = "done" /\ result = "ok"

\* the effective page size of the request, and the nominal payload size as
\* the largest multiple of it not exceeding 476
EffectivePageSize ==
    IF Lt(U32(MAX_PAYLOAD_SIZE), argv.page_size) THEN 1 ELSE argv.page_size[2]

LargestMultiple(eff) ==
    CHOOSE m \in 1..MAX_PAYLOAD_SIZE :
        m % eff = 0 /\ m + eff > MAX_PAYLOAD_SIZE

CeilDivU32(x, d) ==
    IF RemU32(x, d) = 0 THEN DivU32(x, d) ELSE AddWrap(DivU32(x, d), U32(1))

RECURSIVE SumPayload(_)
SumPayload(n) == IF n = 0 THEN 0 ELSE SumPayload(n - 1) + PayloadSize(n - 1)[2]
IsMultiple(x, d) == IF d = 0 THEN x = U32(0) ELSE RemU32(x, d) = 0

FamilyBitSet(f) == (f[2] \div 8192) % 2 = 1

FirstChunk(file) == [i \in 1..CHUNK_SIZE |-> FileByte(file.fill, i - 1)]

RECURSIVE ConcatFirst(_)
ConcatFirst(n) ==
    IF n = 0 THEN <<>> ELSE ConcatFirst(n - 1) \o FirstChunk(inputs[n])

\* inputs that cannot provide CHUNK_SIZE bytes
ShortInputs == {j \in 1..Len(inputs) : inputs[j].exists /\ inputs[j].size < CHUNK_SIZE}
BadInputs == {j \in 1..Len(inputs) : ~inputs[j].exists \/ inputs[j].size < CHUNK_SIZE}

Min(S) == CHOOSE m \in S : \A k \in S : m <= k

\* ------------------------------------------------------------------- claims

\* C1: the num_blocks field of every emitted frame equals
\* ceil(L / nominal_payload_size), the same in all frames of the stream.
C1_NumBlocksIsCeil ==
    \A i \in Emitted :
        NumBlocksField(i) = CeilDivU32(src.size, LargestMultiple(EffectivePageSize))

\* C2: on a successful run the block_no values of the emitted frames are
\* 0, 1, ..., num_blocks-1 in order, num_blocks being the value of the
\* frames' num_blocks field (so that field equals the number of frames).
C2_BlockNoSequence ==
    GenerateOk =>
        \A i \in Emitted :
            /\ BlockNo(i) = U32(i)
            /\ NumBlocksField(i) = U32(NumFrames)

\* C3: in every emitted frame the data bytes at positions payload_size..475
\* are zero.
C3_ZeroPadded ==
    \A i \in Emitted :
        \A j \in PayloadSize(i)[2]..(MAX_PAYLOAD_SIZE - 1) : DataByte(i, j) = 0

\* C4: when L is not a multiple of the effective page size, generate returns
\* an error and the output is neither created nor modified.
C4_ValidationBeforeOutput ==
    (/\ cmd = "generate"
     /\ pc \in {"done", "panic"}
     /\ ~IsMultiple(src.size, EffectivePageSize))
    => (result = "err" /\ out_file = InitialOutFile(out_existed))

\* C5: a successful run emits exactly ceil(L / nominal) frames; every frame but
\* the last carries the nominal payload_size, the last carries L mod nominal
\* if that is nonzero and the nominal value otherwise; the sizes sum to L.
C5_FrameCountAndSizes ==
    GenerateOk =>
        LET P == LargestMultiple(EffectivePageSize)
            r == RemU32(src.size, P)
        IN  /\ U32(NumFrames) = CeilDivU32(src.size, P)
            /\ \A i \in Emitted :
                   PayloadSize(i) = U32(IF i = NumFrames - 1 /\ r # 0 THEN r ELSE P)
            /\ U32(SumPayload(NumFrames)) = src.size

C5_Witness ==
    /\ GenerateOk
    /\ NumFrames >= 3
    /\ PayloadSize(NumFrames - 1) # PayloadSize(0)

\* C6: target_addr of frame i is the sum of the payload_size fields of the
\* frames before it.
C6_TargetAddrIsPrefixSum ==
    \A i \in Emitted : TargetAddr(i) = U32(SumPayload(i))

C6_Witness ==
    /\ GenerateOk
    /\ src.size = U32(1024)
    /\ argv.page_size = U32(256)
    /\ NumFrames = 4
    /\ TargetAddr(1) = U32(256)
    /\ TargetAddr(3) = U32(768)

\* C7: with a family id f every emitted frame has flag bit 0x2000 set and
\* carries f in file_size_or_family; without one every frame has flags 0 and
\* carries the source length.
C7_FamilyTag ==
    \A i \in Emitted :
        IF argv.family # None
        THEN FamilyBitSet(Flags(i)) /\ FileSizeOrFamily(i) = argv.family[1]
        ELSE Flags(i) = U32(0) /\ FileSizeOrFamily(i) = src.size

C7_Witness ==
    /\ GenerateOk
    /\ argv.family = Some(U32(7))
    /\ src.size # U32(7)
    /\ NumFrames >= 2
    /\ FileSizeOrFamily(NumFrames - 1) = U32(7)

\* C8: every payload_size written is at most 476 and a multiple of the
\* effective page size, every frame before the last carries the largest
\* multiple of the effective page size not exceeding 476, and a requested
\* page_size above 476 runs with page_size 1.
C8_PayloadPageAligned ==
    /\ \A i \in Emitted :
           /\ ~Lt(U32(MAX_PAYLOAD_SIZE), PayloadSize(i))
           /\ PayloadSize(i)[2] % EffectivePageSize = 0
           /\ i < NumFrames - 1 => PayloadSize(i) = U32(LargestMultiple(EffectivePageSize))
    /\ (/\ cmd = "generate"
        /\ pc \in {"g_new", "g_create", "g_loop"} \/ Emitted # {}
        /\ Lt(U32(MAX_PAYLOAD_SIZE), argv.page_size))
       => page_size = U32(1)

C8_Witness ==
    /\ GenerateOk
    /\ argv.page_size = U32(1000)
    /\ NumFrames >= 2
    /\ PayloadSize(0) = U32(MAX_PAYLOAD_SIZE)
    /\ PayloadSize(NumFrames - 1) = U32(3)

\* C9: combine over n inputs that each provide 512 bytes ends with an output
\* of 512*n bytes, the concatenation in argument order of the first 512 bytes
\* of each; an input with fewer than 512 bytes makes combine end in an error,
\* nothing is padded and no later input is opened.
C9_CombineConcatenates ==
    (cmd = "combine" /\ pc = "done") =>
        /\ result = "ok" =>
               /\ BadInputs = {}
               /\ Len(out_file.bytes) = CHUNK_SIZE * Len(inputs)
               /\ out_file.bytes = ConcatFirst(Len(inputs))
        /\ ShortInputs # {} =>
               /\ result = "err"
               /\ \A k \in 1..Len(opened) : opened[k] <= Min(ShortInputs)
               /\ Len(out_file.bytes) <= CHUNK_SIZE * (Min(ShortInputs) - 1)
                  \/ out_file = InitialOutFile(out_existed)

C9_Witness ==
    /\ cmd = "combine"
    /\ pc = "done"
    /\ result = "ok"
    /\ Len(inputs) = 3
    /\ inputs[1].fill # inputs[2].fill
    /\ inputs[3].size > CHUNK_SIZE
    /\ Len(out_file.bytes) = 1536

\* C10: for every page_size and every source length generate ends in normal
\* completion or a returned error, never in an arithmetic fault.
C10_NoArithmeticFault ==
    cmd = "generate" => result # "panic"
====
